---- MODULE Spec2Model ----
(***************************************************************************)
(* gssapi.names.Name: the high-level principal-name handle of              *)
(* python-gssapi, a subclass of the low-level gssapi.raw.names.Name.       *)
(*                                                                         *)
(* The state is the set of Python name objects (wrappers), each holding a  *)
(* raw_name pointer into the GSSAPI library's heap of name objects, plus a *)
(* record of the last operation performed (its arguments, the library      *)
(* calls it made, and what it returned or raised).                         *)
(*                                                                         *)
(* gssapi.raw.names (importName, displayName, compareName, exportName,     *)
(* canonicalizeName, duplicateName, and the base class constructor and     *)
(* destructor) is not part of names.py; it is modelled from the            *)
(* specification's description of the boundary it consumes.                *)
(***************************************************************************)
EXTENDS Integers, Sequences, FiniteSets, TLC

\* Number of Python name objects, and of library name objects, that can
\* exist at one time.
MaxNames == 2

VARIABLES
    wr,         \* wr[w]: the Python object in slot w: alive, cls, raw_name
    heap,       \* heap[o]: the library name object in slot o
    badFree,    \* TRUE once gss_release_name was applied to a released object
    last        \* the last operation: op, self, arguments, calls, result

vars == <<wr, heap, badFree, last>>

Slots == 1 .. MaxNames
\* The slot of the temporary handle a library call returns, until the
\* constructor has taken it over.
Tmp == MaxNames + 1
AllSlots == Slots \cup {Tmp}
\* GSS_C_NO_NAME
NULL == 0

----------------------------------------------------------------------------
(* Python values *)

PyVal(k, b, n, s) == [k |-> k, b |-> b, n |-> n, s |-> s]
PyNone == PyVal("None", <<>>, 0, "")
PyBytes(b) == PyVal("bytes", b, 0, "")
PyStr(b, enc) == PyVal("str", b, 0, enc)
PyRef(w) == PyVal("object", <<>>, w, "")
PyBool(t) == PyVal("bool", <<>>, 0, IF t THEN "True" ELSE "False")
PyNotImplemented == PyVal("NotImplemented", <<>>, 0, "")
PyNameType(t) == PyVal("NameType", <<>>, 0, t)
PyMech(m) == PyVal("MechType", <<>>, 0, m)
PyRaise(e) == PyVal("raise", <<>>, 0, e)

\* Classes: the raw base class, the high-level class, and a subclass of it.
RawCls == "rname.Name"
NameClasses == {"Name", "SubName"}
Classes == NameClasses \cup {RawCls}

DeadName == [alive |-> FALSE, cls |-> "", raw |-> NULL]
FreeObj == [live |-> FALSE, name |-> <<>>, ntype |-> "", mn |-> ""]

\* isinstance(v, rname.Name)
IsName(wrs, v) == v.k = "object" /\ v.n \in AllSlots /\ wrs[v.n].alive

----------------------------------------------------------------------------
(* The underlying library, gssapi.raw.names *)

\* Display values a caller may pass, as byte strings (sequences of chunks).
Displays == {<<"alice">>, <<"bob">>}

\* Name types: NameType.export is the sentinel for exported-name tokens;
\* "bogus" is an OID the library does not support.
NameType_export == "export"
NameType_user == "user"
UnsupportedType == "bogus"
NameTypeArgs == {PyNone, PyNameType(NameType_user), PyNameType(UnsupportedType)}

\* Mechanisms: krb5 canonicalizes; "nomech" cannot.
Krb5 == "krb5"
Mechs == {Krb5, "nomech"}
SupportedMechs == {Krb5}
CanonType(m) == "krb5_nt_principal"

\* The canonical form of a display value under the default realm R.
Canon(b) == IF b = <<"alice">> THEN <<"alice@R">>
            ELSE IF b = <<"bob">> THEN <<"bob@R">>
            ELSE b

\* Exported-name token: token id, mechanism, then the canonical name.
TokId == "0401"
EncodeToken(m, b) == <<TokId, m>> \o b
WellFormedToken(t) == Len(t) >= 3 /\ t[1] = TokId /\ t[2] \in SupportedMechs
TokenMech(t) == t[2]
TokenName(t) == SubSeq(t, 3, Len(t))

\* Byte strings a caller may pass as token: the exports of the canonical
\* names, and a truncated token.
Tokens == {EncodeToken(Krb5, <<"alice@R">>), EncodeToken(Krb5, <<"bob@R">>),
           <<TokId, Krb5>>}

NameObj(b, t, m) == [live |-> TRUE, name |-> b, ntype |-> t, mn |-> m]

\* Whether the handle w holds a name the library can read.
HasName(wrs, hp, w) ==
    /\ wrs[w].alive
    /\ wrs[w].raw # NULL
    /\ hp[wrs[w].raw].live

ObjOf(wrs, hp, w) == hp[wrs[w].raw]

LibOk(obj) == [err |-> "ok", obj |-> obj]
LibErr(e) == [err |-> e, obj |-> FreeObj]

\* importName(name, name_type) -> handle
importName(v, t) ==
    IF v.k # "bytes" THEN LibErr("TypeError")
    ELSE IF t.k = "NameType" /\ t.s = NameType_export
    THEN IF WellFormedToken(v.b)
         THEN LibOk(NameObj(TokenName(v.b), CanonType(TokenMech(v.b)),
                            TokenMech(v.b)))
         ELSE LibErr("ImportError")
    ELSE IF t.k = "NameType" /\ t.s = UnsupportedType
    THEN LibErr("NameTypeError")
    ELSE LibOk(NameObj(v.b, IF t.k = "None" THEN "None" ELSE t.s, ""))

\* displayName(name, name_type) -> (name, name_type?)
displayName(wrs, hp, w, with_type) ==
    IF ~HasName(wrs, hp, w)
    THEN [err |-> "BadNameError", name |-> <<>>, name_type |-> "None"]
    ELSE [err |-> "ok", name |-> ObjOf(wrs, hp, w).name,
          name_type |-> IF with_type THEN ObjOf(wrs, hp, w).ntype ELSE "None"]

\* compareName(name1, name2) -> bool: the same principal.
compareName(wrs, hp, w1, w2) ==
    IF ~HasName(wrs, hp, w1) \/ ~HasName(wrs, hp, w2)
    THEN [err |-> "BadNameError", eq |-> FALSE]
    ELSE [err |-> "ok",
          eq |-> Canon(ObjOf(wrs, hp, w1).name) = Canon(ObjOf(wrs, hp, w2).name)]

\* exportName(name) -> bytes: only a mechanism name can be exported.
exportName(wrs, hp, w) ==
    IF ~HasName(wrs, hp, w) THEN [err |-> "BadNameError", token |-> <<>>]
    ELSE IF ObjOf(wrs, hp, w).mn = "" THEN [err |-> "ExportError", token |-> <<>>]
    ELSE [err |-> "ok",
          token |-> EncodeToken(ObjOf(wrs, hp, w).mn, ObjOf(wrs, hp, w).name)]

\* canonicalizeName(name, mech) -> handle
canonicalizeName(wrs, hp, w, m) ==
    IF ~HasName(wrs, hp, w) THEN LibErr("BadNameError")
    ELSE IF m \notin SupportedMechs THEN LibErr("MechanismError")
    ELSE LibOk(NameObj(Canon(ObjOf(wrs, hp, w).name), CanonType(m), m))

\* duplicateName(name) -> handle
duplicateName(wrs, hp, w) ==
    IF ~HasName(wrs, hp, w) THEN LibErr("BadNameError")
    ELSE LibOk(ObjOf(wrs, hp, w))

----------------------------------------------------------------------------
(* The base class gssapi.raw.names.Name: it owns raw_name *)

\* The machine: Python objects, library heap, and the double-release flag.
Machine(wrs, hp, bad) == [wr |-> wrs, heap |-> hp, bad |-> bad]

HasFreeW(wrs) == \E w \in Slots : ~wrs[w].alive
FreeW(wrs) ==
    IF HasFreeW(wrs)
    THEN CHOOSE w \in Slots :
            ~wrs[w].alive /\ \A v \in Slots : v < w => wrs[v].alive
    ELSE Tmp
HasFreeO(hp) == \E o \in Slots : ~hp[o].live
FreeO(hp) ==
    IF HasFreeO(hp)
    THEN CHOOSE o \in Slots : ~hp[o].live /\ \A v \in Slots : v < o => hp[v].live
    ELSE NULL

\* A library call returns a new raw handle on a newly allocated name object.
TmpHandle(M, obj) ==
    LET o == FreeO(M.heap) IN
    [M EXCEPT !.heap = IF o = NULL THEN @ ELSE [@ EXCEPT ![o] = obj],
              !.wr = [@ EXCEPT ![Tmp] = [alive |-> TRUE, cls |-> RawCls,
                                          raw |-> o]]]

\* Bug variant: cpy keeps its raw_name, which both objects then hold.
rname_Name_new_shared(M, w, cls, cpy) ==
    [M EXCEPT !.wr = [@ EXCEPT ![w] = [alive |-> TRUE, cls |-> cls,
                                        raw |-> M.wr[cpy].raw]]]

\* rname.Name.__new__(cls, cpy): the new object takes over cpy's raw_name,
\* and cpy is left holding none.
rname_Name_new(M, w, cls, cpy) ==
    [M EXCEPT !.wr = [@ EXCEPT ![w] = [alive |-> TRUE, cls |-> cls,
                                        raw |-> M.wr[cpy].raw],
                                ![cpy] = [@ EXCEPT !.raw = NULL]]]

\* Deallocation of a Python name object releases the name it still holds.
rname_Name_dealloc(M, w) ==
    LET p == M.wr[w].raw IN
    [wr |-> [M.wr EXCEPT ![w] = DeadName],
     heap |-> IF p # NULL /\ M.heap[p].live
              THEN [M.heap EXCEPT ![p] = FreeObj]
              ELSE M.heap,
     bad |-> M.bad \/ (p # NULL /\ ~M.heap[p].live)]

Call(fn, a1, a2, err) == [fn |-> fn, a1 |-> a1, a2 |-> a2, err |-> err]
Outcome(M, calls, ret, oom) == [M |-> M, calls |-> calls, ret |-> ret, oom |-> oom]

----------------------------------------------------------------------------
(* gssapi.names.Name *)

\* Bug variant: an existing handle is looked for before the token.
base_name_handle_first(wrs, base, name_type, token) ==
    IF IsName(wrs, base)
    THEN [import |-> FALSE, a1 |-> base, a2 |-> PyNone]
    ELSE IF token.k # "None"
    THEN [import |-> TRUE, a1 |-> token, a2 |-> PyNameType(NameType_export)]
    ELSE [import |-> TRUE, a1 |-> base, a2 |-> name_type]

\* Bug variant: the token is imported under the caller's name_type.
base_name_no_sentinel(wrs, base, name_type, token) ==
    IF token.k # "None"
    THEN [import |-> TRUE, a1 |-> token, a2 |-> name_type]
    ELSE IF IsName(wrs, base)
    THEN [import |-> FALSE, a1 |-> base, a2 |-> PyNone]
    ELSE [import |-> TRUE, a1 |-> base, a2 |-> name_type]

\* __new__, the choice of base_name: whether importName is called, and on what.
base_name(wrs, base, name_type, token) ==
    IF token.k # "None"
    THEN [import |-> TRUE, a1 |-> token, a2 |-> PyNameType(NameType_export)]
    ELSE IF IsName(wrs, base)
    THEN [import |-> FALSE, a1 |-> base, a2 |-> PyNone]
    ELSE [import |-> TRUE, a1 |-> base, a2 |-> name_type]

\* Name.__new__(cls, base, name_type, token), building the object in slot w.
Name_new(M, w, cls, base, name_type, token) ==
    LET bn == base_name(M.wr, base, name_type, token) IN
    IF bn.import
    THEN LET r == importName(bn.a1, bn.a2)
             calls == <<Call("importName", bn.a1, bn.a2, r.err)>>
             M1 == TmpHandle(M, r.obj)
         IN IF r.err # "ok"
            THEN Outcome(M, calls, PyRaise(r.err), FALSE)
            ELSE Outcome(rname_Name_dealloc(rname_Name_new(M1, w, cls, Tmp), Tmp),
                         calls, PyRef(w),
                         ~HasFreeO(M.heap) \/ w = Tmp)
    ELSE Outcome(rname_Name_new(M, w, cls, bn.a1.n), <<>>, PyRef(w), w = Tmp)

\* _utils._get_encoding(): the process-wide text encoding.
Encoding == "utf-8"

\* Name.__bytes__: displayName(self, name_type=False).name
Name_bytes(M, self) ==
    LET r == displayName(M.wr, M.heap, self, FALSE) IN
    Outcome(M, <<Call("displayName", PyRef(self), PyBool(FALSE), r.err)>>,
            IF r.err = "ok" THEN PyBytes(r.name) ELSE PyRaise(r.err), FALSE)

\* Name.__str__ (Python 3): bytes(self).decode(encoding)
Name_str(M, self) ==
    LET b == Name_bytes(M, self) IN
    Outcome(M, b.calls,
            IF b.ret.k = "bytes" THEN PyStr(b.ret.b, Encoding) ELSE b.ret, FALSE)

\* Name.name_type: displayName(self, name_type=True).name_type
Name_name_type(M, self) ==
    LET r == displayName(M.wr, M.heap, self, TRUE) IN
    Outcome(M, <<Call("displayName", PyRef(self), PyBool(TRUE), r.err)>>,
            IF r.err = "ok" THEN PyNameType(r.name_type) ELSE PyRaise(r.err),
            FALSE)

\* Name.__repr__: "Name({name}, {name_type})"
Name_repr(M, self) ==
    LET r == displayName(M.wr, M.heap, self, TRUE) IN
    Outcome(M, <<Call("displayName", PyRef(self), PyBool(TRUE), r.err)>>,
            IF r.err = "ok"
            THEN PyStr(<<"Name(">> \o r.name \o <<", ", r.name_type, ")">>, "")
            ELSE PyRaise(r.err),
            FALSE)

\* Bug variant: a value that is not a name compares unequal.
Name_eq_false(M, self, other) ==
    IF ~IsName(M.wr, other)
    THEN Outcome(M, <<>>, PyBool(FALSE), FALSE)
    ELSE LET r == compareName(M.wr, M.heap, self, other.n) IN
         Outcome(M, <<Call("compareName", PyRef(self), other, r.err)>>,
                 IF r.err = "ok" THEN PyBool(r.eq) ELSE PyRaise(r.err), FALSE)

\* Bug variant: names are compared by their display strings.
Name_eq_display(M, self, other) ==
    IF ~IsName(M.wr, other)
    THEN Outcome(M, <<>>, PyNotImplemented, FALSE)
    ELSE LET a == displayName(M.wr, M.heap, self, FALSE)
             b == displayName(M.wr, M.heap, other.n, FALSE)
         IN Outcome(M, <<Call("displayName", PyRef(self), PyBool(FALSE), a.err),
                         Call("displayName", other, PyBool(FALSE), b.err)>>,
                    IF a.err # "ok" THEN PyRaise(a.err)
                    ELSE IF b.err # "ok" THEN PyRaise(b.err)
                    ELSE PyBool(a.name = b.name), FALSE)

\* Name.__eq__(self, other)
Name_eq(M, self, other) ==
    IF ~IsName(M.wr, other)
    THEN Outcome(M, <<>>, PyNotImplemented, FALSE)
    ELSE LET r == compareName(M.wr, M.heap, self, other.n) IN
         Outcome(M, <<Call("compareName", PyRef(self), other, r.err)>>,
                 IF r.err = "ok" THEN PyBool(r.eq) ELSE PyRaise(r.err), FALSE)

\* Python's truth value of an object: NotImplemented, like any object
\* without __bool__, is true.
Truthy(v) == IF v.k = "bool" THEN v.s = "True" ELSE TRUE

\* Name.__ne__(self, other): not self.__eq__(other)
Name_ne(M, self, other) ==
    LET e == Name_eq(M, self, other) IN
    Outcome(M, e.calls,
            IF e.ret.k = "raise" THEN e.ret ELSE PyBool(~Truthy(e.ret)), FALSE)

\* Bug variant: a failed export yields an empty token.
Name_export_swallow(M, self) ==
    LET r == exportName(M.wr, M.heap, self) IN
    Outcome(M, <<Call("exportName", PyRef(self), PyNone, r.err)>>,
            PyBytes(r.token), FALSE)

\* Name.export: exportName(self)
Name_export(M, self) ==
    LET r == exportName(M.wr, M.heap, self) IN
    Outcome(M, <<Call("exportName", PyRef(self), PyNone, r.err)>>,
            IF r.err = "ok" THEN PyBytes(r.token) ELSE PyRaise(r.err), FALSE)

\* type(self)(handle) for the handle a library call has just returned.
type_self_new(M, w, self, r, calls) ==
    IF r.err # "ok"
    THEN Outcome(M, calls, PyRaise(r.err), FALSE)
    ELSE LET c == Name_new(TmpHandle(M, r.obj), w, M.wr[self].cls,
                           PyRef(Tmp), PyNone, PyNone)
         IN Outcome(rname_Name_dealloc(c.M, Tmp), calls \o c.calls, c.ret,
                    c.oom \/ ~HasFreeO(M.heap))

\* Bug variant: the result is always built as a plain Name.
Name_canonicalize_plain(M, w, self, mech_type) ==
    LET r == canonicalizeName(M.wr, M.heap, self, mech_type)
        calls == <<Call("canonicalizeName", PyRef(self), PyMech(mech_type), r.err)>>
    IN IF r.err # "ok"
       THEN Outcome(M, calls, PyRaise(r.err), FALSE)
       ELSE LET c == Name_new(TmpHandle(M, r.obj), w, "Name", PyRef(Tmp),
                              PyNone, PyNone)
            IN Outcome(rname_Name_dealloc(c.M, Tmp), calls \o c.calls, c.ret,
                       c.oom \/ ~HasFreeO(M.heap))

\* Name.canonicalize: type(self)(canonicalizeName(self, mech_type))
Name_canonicalize(M, w, self, mech_type) ==
    LET r == canonicalizeName(M.wr, M.heap, self, mech_type) IN
    type_self_new(M, w, self, r,
        <<Call("canonicalizeName", PyRef(self), PyMech(mech_type), r.err)>>)

\* Bug variant: type(self)(self), without duplicateName.
Name_copy_shallow(M, w, self) ==
    LET c == Name_new(M, w, M.wr[self].cls, PyRef(self), PyNone, PyNone) IN
    Outcome(c.M, c.calls, c.ret, c.oom)

\* Name.__copy__: type(self)(duplicateName(self))
Name_copy(M, w, self) ==
    LET r == duplicateName(M.wr, M.heap, self) IN
    type_self_new(M, w, self, r,
        <<Call("duplicateName", PyRef(self), PyNone, r.err)>>)

\* Bug variant: type(self)(self), without duplicateName.
Name_deepcopy_shallow(M, w, self) ==
    LET c == Name_new(M, w, M.wr[self].cls, PyRef(self), PyNone, PyNone) IN
    Outcome(c.M, c.calls, c.ret, c.oom)

\* Name.__deepcopy__: type(self)(duplicateName(self)); memo is not used.
Name_deepcopy(M, w, self) ==
    LET r == duplicateName(M.wr, M.heap, self) IN
    type_self_new(M, w, self, r,
        <<Call("duplicateName", PyRef(self), PyNone, r.err)>>)

----------------------------------------------------------------------------
(* The state machine *)

Now == Machine(wr, heap, badFree)

Op(op, self, a1, a2, a3, out) ==
    [op |-> op, self |-> self, a1 |-> a1, a2 |-> a2, a3 |-> a3,
     calls |-> out.calls, ret |-> out.ret]

\* Apply the outcome of a method: it runs unless memory is exhausted.
Apply(op, self, a1, a2, a3, out) ==
    /\ ~out.oom
    /\ wr' = out.M.wr
    /\ heap' = out.M.heap
    /\ badFree' = out.M.bad
    /\ last' = Op(op, self, a1, a2, a3, out)

\* Objects of the high-level class, on which its methods are called.
Names == {w \in Slots : wr[w].alive /\ wr[w].cls \in NameClasses}
Handles == {w \in Slots : wr[w].alive}

\* Values that are not name handles.
NonNames == {PyNone, PyBytes(<<"alice">>)}
Others == NonNames \cup {PyRef(w) : w \in Handles}

Init ==
    /\ wr = [w \in AllSlots |-> DeadName]
    /\ heap = [o \in Slots |-> FreeObj]
    /\ badFree = FALSE
    /\ last = [op |-> "init", self |-> 0, a1 |-> PyNone, a2 |-> PyNone,
               a3 |-> PyNone, calls |-> <<>>, ret |-> PyNone]

\* Name(base, name_type, token) and SubName(base, name_type, token)
New ==
    \E cls \in NameClasses,
       base \in {PyNone} \cup {PyBytes(b) : b \in Displays}
                \cup {PyRef(w) : w \in Handles},
       name_type \in NameTypeArgs,
       token \in {PyNone} \cup {PyBytes(t) : t \in Tokens} :
        Apply("new", 0, base, name_type, token,
              Name_new(Now, FreeW(wr), cls, base, name_type, token))

\* rname.importName(name, name_type) called by the application itself:
\* a raw handle that is not a gssapi.names.Name.
RawImport ==
    \E b \in Displays :
        LET r == importName(PyBytes(b), PyNone)
            w == FreeW(wr)
            M1 == TmpHandle(Now, r.obj)
        IN Apply("rawImport", 0, PyBytes(b), PyNone, PyNone,
                 Outcome(rname_Name_dealloc(rname_Name_new(M1, w, RawCls, Tmp), Tmp),
                         <<Call("importName", PyBytes(b), PyNone, r.err)>>,
                         PyRef(w), w = Tmp \/ ~HasFreeO(heap)))

Bytes == \E self \in Names :
    Apply("bytes", self, PyNone, PyNone, PyNone, Name_bytes(Now, self))

Str == \E self \in Names :
    Apply("str", self, PyNone, PyNone, PyNone, Name_str(Now, self))

GetNameType == \E self \in Names :
    Apply("name_type", self, PyNone, PyNone, PyNone, Name_name_type(Now, self))

Repr == \E self \in Names :
    Apply("repr", self, PyNone, PyNone, PyNone, Name_repr(Now, self))

Eq == \E self \in Names, other \in Others :
    Apply("eq", self, other, PyNone, PyNone, Name_eq(Now, self, other))

Ne == \E self \in Names, other \in Others :
    Apply("ne", self, other, PyNone, PyNone, Name_ne(Now, self, other))

Export == \E self \in Names :
    Apply("export", self, PyNone, PyNone, PyNone, Name_export(Now, self))

Canonicalize == \E self \in Names, m \in Mechs :
    Apply("canonicalize", self, PyMech(m), PyNone, PyNone,
          Name_canonicalize(Now, FreeW(wr), self, m))

Copy == \E self \in Names :
    Apply("copy", self, PyNone, PyNone, PyNone, Name_copy(Now, FreeW(wr), self))

DeepCopy == \E self \in Names :
    Apply("deepcopy", self, PyNone, PyNone, PyNone,
          Name_deepcopy(Now, FreeW(wr), self))

\* The last reference to a name object is dropped.
Destroy == \E w \in Handles :
    Apply("destroy", w, PyNone, PyNone, PyNone,
          Outcome(rname_Name_dealloc(Now, w), <<>>, PyNone, FALSE))

Next ==
    \/ New
    \/ RawImport
    \/ Bytes
    \/ Str
    \/ GetNameType
    \/ Repr
    \/ Eq
    \/ Ne
    \/ Export
    \/ Canonicalize
    \/ Copy
    \/ DeepCopy
    \/ Destroy

Spec == Init /\ [][Next]_vars

----------------------------------------------------------------------------
(* Properties *)

\* A handle that holds an underlying name (it has not handed it over to
\* another object).
Holds(w) == HasName(wr, heap, w)

IsOne(calls, fn, a1, a2) ==
    /\ Len(calls) = 1
    /\ calls[1].fn = fn
    /\ calls[1].a1 = a1
    /\ calls[1].a2 = a2

\* C1: construction picks one input mode, token before existing handle before
\* display value: with a token, one importName(token, NameType.export) and
\* base and name_type play no part; else with a name handle as base, the new
\* object takes base's underlying name and no library call is made; else one
\* importName(base, name_type).
C1_ConstructionMode ==
    [][last'.op = "new" =>
        IF last'.a3.k # "None"
        THEN /\ IsOne(last'.calls, "importName", last'.a3,
                      PyNameType(NameType_export))
             /\ last'.ret = IF importName(last'.a3, PyNameType(NameType_export)).err = "ok"
                            THEN PyRef(FreeW(wr))
                            ELSE PyRaise("ImportError")
             /\ \A w \in Slots : wr[w].alive => wr'[w] = wr[w]
             /\ last'.ret.k = "object" =>
                    heap'[wr'[last'.ret.n].raw] =
                        importName(last'.a3, PyNameType(NameType_export)).obj
        ELSE IF IsName(wr, last'.a1)
        THEN /\ last'.calls = <<>>
             /\ last'.ret = PyRef(FreeW(wr))
             /\ wr'[last'.ret.n].raw = wr[last'.a1.n].raw
             /\ heap' = heap
        ELSE /\ IsOne(last'.calls, "importName", last'.a1, last'.a2)
             /\ last'.calls[1].err = importName(last'.a1, last'.a2).err
             /\ last'.ret.k = "object" =>
                    heap'[wr'[last'.ret.n].raw] = importName(last'.a1, last'.a2).obj
    ]_vars

\* C1 witness: a construction given both a token and a name handle as base
\* has built its object from the token.
C1_Witness ==
    /\ last.op = "new"
    /\ last.a3.k = "bytes"
    /\ IsName(wr, last.a1)
    /\ Holds(last.a1.n)
    /\ last.a2.k = "NameType"
    /\ last.ret.k = "object"

\* C2: equals(h, x) for x not a name handle is NotImplemented, with no call
\* of the library and no exception.
C2_EqNonNameNotImplemented ==
    (last.op = "eq" /\ ~IsName(wr, last.a1)) =>
        /\ last.ret = PyNotImplemented
        /\ last.calls = <<>>

\* C2 witness: a handle holding a name was compared with a byte string.
C2_Witness ==
    /\ last.op = "eq"
    /\ last.a1 = PyBytes(<<"alice">>)
    /\ Holds(last.self)

\* The value of the expression a == b in Python when a.__eq__(b) returned r
\* and b is not a name: NotImplemented falls back to identity, which is false.
TopLevelEq(r) == IF r.k = "NotImplemented" THEN PyBool(FALSE) ELSE r

PyNot(v) == IF v.k = "raise" THEN v ELSE PyBool(v.s # "True")

\* C3: not_equals(h, x) is the negation of the top-level equality of h and x:
\* true when x is not a name handle, NOT compareName(h, x) when it is.
C3_NeIsNegation ==
    last.op = "ne" =>
        last.ret = PyNot(TopLevelEq(Name_eq(Now, last.self, last.a1).ret))

\* C4: when export(h) succeeds with token t, constructing from t succeeds,
\* the new handle equals h, and h is left as it was (by the export and by
\* the construction).
C4_ExportImportRoundTrip ==
    [][/\ last'.op = "export" => (wr' = wr /\ heap' = heap)
       /\ (last'.op = "new" /\ last'.a3.k = "bytes") =>
            \A h \in Slots :
                (/\ HasName(wr, heap, h)
                 /\ exportName(wr, heap, h).err = "ok"
                 /\ exportName(wr, heap, h).token = last'.a3.b) =>
                    /\ last'.ret.k = "object"
                    /\ Name_eq(Now', last'.ret.n, PyRef(h)).ret = PyBool(TRUE)
                    /\ Name_eq(Now', h, last'.ret).ret = PyBool(TRUE)
                    /\ wr'[h] = wr[h]
                    /\ heap'[wr[h].raw] = heap[wr[h].raw]
    ]_vars

\* C4 witness: a handle was built from a token that is the export of another
\* handle of the high-level class.
C4_Witness ==
    /\ last.op = "new"
    /\ last.a3.k = "bytes"
    /\ last.ret.k = "object"
    /\ \E h \in Names :
        /\ h # last.ret.n
        /\ Holds(h)
        /\ Name_export(Now, h).ret = last.a3

\* After destroying a, the handle b is still valid and displays, reports its
\* type and compares as before.
SurvivesDestroy(a, b) ==
    LET M2 == rname_Name_dealloc(Now, a) IN
    /\ ~M2.bad
    /\ HasName(M2.wr, M2.heap, b)
    /\ Name_bytes(M2, b).ret = Name_bytes(Now, b).ret
    /\ Name_name_type(M2, b).ret = Name_name_type(Now, b).ret
    /\ Name_eq(M2, b, PyRef(b)).ret = Name_eq(Now, b, PyRef(b)).ret

C6_CanonicalizeNewHandle ==
    [][last'.op = "canonicalize" =>
        LET h == last'.self
            r == canonicalizeName(wr, heap, h, last'.a1.s)
        IN /\ IsOne(last'.calls, "canonicalizeName", PyRef(h), last'.a1)
           /\ last'.ret = IF r.err = "ok" THEN PyRef(FreeW(wr)) ELSE PyRaise(r.err)
           /\ last'.ret.k = "object" =>
                /\ last'.ret.n # h
                /\ wr'[last'.ret.n].cls = wr[h].cls
                /\ heap'[wr'[last'.ret.n].raw] = r.obj
                /\ Name_name_type(Now', last'.ret.n).ret =
                        PyNameType(CanonType(last'.a1.s))
           /\ wr'[h] = wr[h]
           /\ Name_name_type(Now', h).ret = Name_name_type(Now, h).ret
           /\ Name_bytes(Now', h).ret = Name_bytes(Now, h).ret
    ]_vars

\* C6 witness: a SubName whose type is not the canonical one was
\* canonicalized.
C6_Witness ==
    /\ last.op = "canonicalize"
    /\ last.ret.k = "object"
    /\ wr[last.self].cls = "SubName"
    /\ Name_name_type(Now, last.self).ret # Name_name_type(Now, last.ret.n).ret

ErrorOps == {"new", "export", "canonicalize", "copy", "deepcopy"}

\* C7: when the library call of a construction, export, canonicalize or copy
\* fails, it was the only call, the operation raises that error and returns
\* nothing, and no object changes; a malformed token gives ImportError, an
\* unsupported name type NameTypeError.
C7_ErrorsPropagate ==
    [][last'.op \in ErrorOps =>
        /\ (\E i \in 1 .. Len(last'.calls) : last'.calls[i].err # "ok") =>
            /\ Len(last'.calls) = 1
            /\ last'.ret = PyRaise(last'.calls[1].err)
            /\ wr' = wr /\ heap' = heap /\ badFree' = badFree
        /\ last'.ret.k = "raise" =>
            \E i \in 1 .. Len(last'.calls) : last'.calls[i].err = last'.ret.s
        /\ (last'.op = "new" /\ last'.a3.k = "bytes" /\ ~WellFormedToken(last'.a3.b)) =>
            last'.ret = PyRaise("ImportError")
        /\ (last'.op = "new" /\ last'.a3.k = "None" /\ last'.a1.k = "bytes"
                /\ last'.a2 = PyNameType(UnsupportedType)) =>
            last'.ret = PyRaise("NameTypeError")
        /\ (last'.op = "export" /\ HasName(wr, heap, last'.self)
                /\ heap[wr[last'.self].raw].mn = "") =>
            last'.ret = PyRaise("ExportError")
    ]_vars

\* C7 witness: an export failed while another handle existed.
C7_Witness ==
    /\ last.op = "export"
    /\ last.ret = PyRaise("ExportError")
    /\ \E w \in Handles : w # last.self /\ Holds(w)

ReadOps == {"bytes", "str", "name_type", "repr", "eq", "ne", "export"}

\* C8: converting a handle to bytes gives the same bytes again after any of
\* the read-only operations, copy, deepcopy or canonicalize.
C8_BytesIdempotent ==
    [][/\ last'.op = "bytes" => last'.ret = Name_bytes(Now, last'.self).ret
       /\ (last.op = "bytes" /\ last'.op = "bytes" /\ last'.self = last.self) =>
            last'.ret = last.ret
       /\ last'.op \in ReadOps \cup {"copy", "deepcopy", "canonicalize"} =>
            \A h \in Slots :
                wr[h].alive => Name_bytes(Now', h).ret = Name_bytes(Now, h).ret
    ]_vars

\* C8 witness: a canonical name, made by canonicalize or from a token, was
\* converted to bytes.
C8_Witness ==
    /\ last.op = "bytes"
    /\ last.ret = PyBytes(<<"alice@R">>)

Owners(o) == {w \in AllSlots : wr[w].alive /\ wr[w].raw = o}

====
